---- MODULE Spec2Model ----
(***************************************************************************)
(* Chronic-Pain-Assessment-Application: the API client of                  *)
(* src/utils/validation.ts (apiFetch: retry, backoff, CSRF token handling) *)
(* and the quiz flow of src/src/pages/Quiz (page handlers, QuizContext).   *)
(*                                                                         *)
(* Two specifications share the variables:                                 *)
(*   SpecApi   one call of the API client, from application start;         *)
(*   SpecQuiz  the respondent's walk through the quiz pages.               *)
(* Each leaves the other's variables at their initial value.               *)
(***************************************************************************)
EXTENDS Integers, Sequences, FiniteSets

VARIABLES
    \* ---- API client (src/utils/validation.ts) ----
    isTestEnv,      \* IS_TEST_ENV
    apc,            \* where the client is: boot, ready, attempt, fetching, refreshing, sleeping, returned
    caller,         \* the exported function that made the call
    method,         \* options.method
    retryConfig,    \* retryConfig of the call
    attempt,        \* the loop variable of apiFetch
    lastError,      \* lastError of apiFetch
    csrfToken,      \* the token cached by the csrfToken module, 0 = none
    tokenSeq,       \* number of tokens the server has issued so far
    sent,           \* the fetch(url) requests of this call, in order
    outcomes,       \* what came back for each of them, in order
    slept,          \* the sleeps of this call, in order
    refreshCalls,   \* number of refreshCsrfToken() invocations of this call
    refreshed,      \* none, pending, ok, failed
    refreshTok,     \* the token a successful refresh obtained, 0 = none
    result,         \* the ApiResponse returned, or NoResult
    \* ---- quiz (src/src/context/QuizContext.tsx, src/src/pages/Quiz) ----
    path,           \* the router's location
    state,          \* QuizState, the state of the quiz reducer
    local,          \* the useState values of the page that is mounted
    pending,        \* timers and requests in flight whose callbacks have not run
    lastPost,       \* the last POST a quiz page sent with fetch
    \* ---- Cellular Science page (src/unnamed/part_000) ----
    cell,           \* the page's useState values, the assessment context, localStorage
    \* ---- arguments of the API client's callers ----
    contactInfo,    \* payload.contactInfo of the submitAssessment call
    \* ---- request log (src/utils/validation.ts) ----
    logv            \* the build mode, the body handed to logRequest, the entry written

apiVars == <<isTestEnv, apc, caller, method, retryConfig, attempt, lastError, csrfToken,
             tokenSeq, sent, outcomes, slept, refreshCalls, refreshed, refreshTok, result>>

quizVars == <<path, state, local, pending, lastPost>>

\* what neither the API client nor the quiz touches
otherVars == <<cell, contactInfo, logv>>

vars == <<apiVars, quizVars, otherVars>>

----------------------------------------------------------------------------
(* Bounds of the model                                                     *)

\* largest maxRetries of the generic retry configurations
MaxRetriesBound == 2

\* most timers of one kind that are pending at a time
MaxTimers == 1

\* most requests of one kind that are in flight at a time
MaxPending == 1

----------------------------------------------------------------------------
(* Program constants                                                       *)

DEFAULT_MAX_RETRIES == 3
DEFAULT_BASE_DELAY == 1000
DEFAULT_MAX_DELAY == 10000

DEFAULT_RETRY_CONFIG ==
    [maxRetries |-> DEFAULT_MAX_RETRIES, baseDelay |-> DEFAULT_BASE_DELAY,
     maxDelay |-> DEFAULT_MAX_DELAY]

\* { maxRetries: 1, baseDelay: 500, maxDelay: 1000 } of saveProgress and checkApiHealth
LOW_RETRY_CONFIG == [maxRetries |-> 1, baseDelay |-> 500, maxDelay |-> 1000]

\* retry configurations apiFetch is exercised with besides those of its callers:
\* a short base delay against a low cap, so that the cap is reached
GenericRetryConfigs ==
    [maxRetries : 0..MaxRetriesBound, baseDelay : {500}, maxDelay : {750}]

Methods == {"GET", "POST", "PUT", "DELETE", "PATCH"}

NoResult == [success |-> FALSE, code |-> "NONE"]
NoError == [kind |-> "none", code |-> "NONE", status |-> 0]
NoConfig == [maxRetries |-> 0, baseDelay |-> 0, maxDelay |-> 0]

----------------------------------------------------------------------------
(* Pure helpers of the API client                                          *)

RECURSIVE Pow2(_)
Pow2(n) == IF n = 0 THEN 1 ELSE 2 * Pow2(n - 1)

Min(a, b) == IF a < b THEN a ELSE b

\* the backoff without its cap
GetRetryDelay_Uncapped(att, config) == config.baseDelay * Pow2(att)

GetRetryDelay(att, config) == Min(config.baseDelay * Pow2(att), config.maxDelay)

\* every error is retried
IsRetryableError_Always(error) == TRUE

IsRetryableError(error) ==
    IF error.kind = "ApiError"
    THEN \/ error.code = "NETWORK_ERROR"
         \/ error.code = "TIMEOUT_ERROR"
         \/ (error.status # 0 /\ error.status >= 500)
    ELSE error.kind = "TypeError"

\* only POST is taken as state-changing
RequiresCsrfToken_PostOnly(m) == m = "POST"

RequiresCsrfToken(m) == m \in {"POST", "PUT", "DELETE", "PATCH"}

MapHttpStatusToErrorCode(status) ==
    CASE status = 400 -> "VALIDATION_ERROR"
      [] status = 401 -> "UNAUTHORIZED"
      [] status = 403 -> "FORBIDDEN"
      [] status = 404 -> "NOT_FOUND"
      [] status = 429 -> "RATE_LIMIT"
      [] status \in {500, 502, 503, 504} -> "SERVER_ERROR"
      [] OTHER -> "UNKNOWN_ERROR"

\* shouldUseCsrf of apiFetch
ShouldUseCsrf(m, testEnv) == RequiresCsrfToken(m) /\ ~testEnv

\* response.ok
ResponseOk(status) == status >= 200 /\ status <= 299

\* isCsrfError: the body's code is CSRF_TOKEN_INVALID or CSRF_TOKEN_MISSING, or its
\* message contains 'csrf'; the outcome's csrf field says whether the body is such
IsCsrfError(o) == o.csrf

\* the refresh is attempted on every attempt
MayRefresh_Always(att) == TRUE

\* the refresh-and-retry of a CSRF-classified 403 is attempted on this attempt
MayRefresh(att) == att = 0

\* a loop that "continue" never leaves
LoopCondition_Unbounded(att, config) == TRUE

\* the for loop's condition
LoopCondition(att, config) == att <= config.maxRetries

\* "Check if we should retry" of the catch block
ShouldRetry(att, config, error) == att < config.maxRetries /\ IsRetryableError(error)

\* "Don't retry client errors (4xx)"
IsClientError(status) == status >= 400 /\ status < 500

\* lastError after the catch block's normalisation of what was thrown
CaughtError(o) ==
    CASE o.kind = "network" -> [kind |-> "ApiError", code |-> "NETWORK_ERROR", status |-> 0]
      [] o.kind = "timeout" -> [kind |-> "ApiError", code |-> "TIMEOUT_ERROR", status |-> 0]
      [] o.kind = "response" /\ ~ResponseOk(o.status) ->
            [kind |-> "ApiError", code |-> MapHttpStatusToErrorCode(o.status),
             status |-> o.status]
      [] OTHER -> [kind |-> "SyntaxError", code |-> "NONE", status |-> 0]

\* the return after the loop ("All retries exhausted")
AfterLoop(error) ==
    IF error.kind = "ApiError"
    THEN [success |-> FALSE, code |-> error.code]
    ELSE [success |-> FALSE, code |-> "UNKNOWN_ERROR"]

----------------------------------------------------------------------------
(* What the network can answer to one request                              *)

Statuses == {200, 304, 400, 401, 403, 404, 429, 500}

Outcomes ==
    {[kind |-> "network", status |-> 0, csrf |-> FALSE, json |-> FALSE, newToken |-> FALSE],
     [kind |-> "timeout", status |-> 0, csrf |-> FALSE, json |-> FALSE, newToken |-> FALSE]}
    \cup {[kind |-> "response", status |-> 200, csrf |-> FALSE, json |-> j, newToken |-> n] :
             j \in BOOLEAN, n \in BOOLEAN}
    \cup {[kind |-> "response", status |-> s, csrf |-> FALSE, json |-> TRUE, newToken |-> FALSE] :
             s \in Statuses \ {200}}
    \cup {[kind |-> "response", status |-> 403, csrf |-> TRUE, json |-> TRUE, newToken |-> FALSE]}

----------------------------------------------------------------------------
(* The quiz: routes, QuizState and what the backend can answer             *)
(*                                                                         *)
(* A page handler is enabled when the router's location is the path the    *)
(* other pages navigate to in order to show that page. QuizState fields    *)
(* that no handler reads (quizId, currentStep, the free texts of Q4 and    *)
(* Q7, the medication types, the contact fields) are left out, and the     *)
(* respondent's answers are drawn from the small sets below.               *)

Q1Path == "/quiz/q1-duration"
TooSoonPath == "/quiz/disqualified-too-soon"
Q2Path == "/quiz/q2-treatments"
ConnectingPath == "/quiz/connecting-message-q2"
EducationPath == "/quiz/education-q2a"
EducationNonePath == "/quiz/education-q2a-none"
Q3Path == "/quiz/q3-conditions"
NonTreatablePath == "/quiz/disqualified-non-treatable"
ManualReviewPath == "/quiz/manual-review"
AlternativePath == "/quiz/alternative-primary-cell-explanation"
PrimaryCellPath == "/quiz/primary-cell-explanation"
Q4Path == "/quiz/q4-whats-missing"
Q5Path == "/quiz/q5-urgency"
Q6Path == "/quiz/q6-annual-spending"
Q7Path == "/quiz/q7-open-questions"
CongratulationsPath == "/quiz/congratulations"
CongratulationsAltPath == "/quiz/congratulations-alternative"
WelcomePath == "/quiz/welcome"

\* the paths at which the quiz pages are mounted
PagePaths ==
    {Q1Path, TooSoonPath, Q2Path, ConnectingPath, EducationPath, EducationNonePath,
     Q3Path, NonTreatablePath, ManualReviewPath, AlternativePath, PrimaryCellPath,
     Q4Path, Q5Path, Q6Path, Q7Path, CongratulationsPath, CongratulationsAltPath,
     WelcomePath}

\* the paths of the <Route> elements of App
RegisteredRoutes == {"/", Q1Path, TooSoonPath, Q2Path, ConnectingPath}

\* <Routes>: a page's own path shows the page, "/" and every other path are
\* redirected to the start of the quiz
ResolveRoute(to) == IF to \in PagePaths THEN to ELSE Q1Path

\* the answers a respondent picks from
Treatments == {"physical_therapy", "none"}
Conditions == {"chronic_back_pain", "fibromyalgia"}
\* a text field's value is a sequence of characters; Q3's free text is left empty or
\* filled with a word
EmptyText == <<>>
OtherTexts == {EmptyText, <<"l", "u", "p", "u", "s">>}

\* String.prototype.trim: white space is removed from both ends
WhiteSpace == {" "}

RECURSIVE TrimStart(_)
TrimStart(text) ==
    IF text # <<>> /\ Head(text) \in WhiteSpace THEN TrimStart(Tail(text)) ELSE text

RECURSIVE TrimEnd(_)
TrimEnd(text) ==
    IF text # <<>> /\ text[Len(text)] \in WhiteSpace
    THEN TrimEnd(SubSeq(text, 1, Len(text) - 1))
    ELSE text

Trim(text) == TrimEnd(TrimStart(text))
Activities == {"sleep"}
UrgencyLevels == {"very_urgent"}
SpendingOptions == {"0_3000"}

\* a field the backend's answer lacks: undefined in place of a string or boolean, and
\* in place of a list (a value with no length)
Undefined == "undefined"
UndefinedList == {"undefined"}

\* initialState of the reducer
initialState ==
    [painDuration |-> "",
     treatmentsTried |-> {},
     conditions |-> {},
     conditionOther |-> EmptyText,
     missingActivities |-> {},
     urgencyLevel |-> "",
     annualSpending |-> "",
     qualificationStatus |-> "",
     treatableConditions |-> {},
     nonTreatableConditions |-> {},
     requiresManualReview |-> "false",
     wantsNotification |-> FALSE]

\* the useState initial values of the page at path p, given the quiz state st
FreshLocal(p, st) ==
    [showEducation |-> FALSE,
     q1Timers |-> 0,
     q2Selected |-> IF p = Q2Path THEN st.treatmentsTried ELSE {},
     q3Selected |-> IF p = Q3Path THEN st.conditions ELSE {},
     q3OtherText |-> IF p = Q3Path THEN st.conditionOther ELSE EmptyText,
     q4Selected |-> IF p = Q4Path THEN st.missingActivities ELSE {},
     isSubmitting |-> FALSE,
     cameFrom |-> "",
     welcomeDepth |-> 0]

NothingPending == [q1Stale |-> 0, q3Fetches |-> 0, q6Timers |-> 0, contactStale |-> 0]

NoPost == [url |-> "", csrf |-> FALSE]

\* the bodies /api/quiz/analyze-conditions can answer with: every field present, ...
CompleteAnalyses ==
    {[qualification_status |-> q,
      treatable_conditions |-> t,
      non_treatable_conditions |-> IF q = "disqualified_non_treatable"
                                   THEN {"fibromyalgia"} ELSE {},
      requires_manual_review |-> IF q = "manual_review" THEN "true" ELSE "false",
      should_show_alternative_primary_cell |-> alt,
      should_show_primary_cell |-> prim] :
        q \in {"qualified", "disqualified_non_treatable", "manual_review"},
        t \in {{}, {"chronic_back_pain"}},
        alt \in BOOLEAN, prim \in BOOLEAN}

\* ... or JSON that lacks the expected fields
IncompleteAnalyses ==
    {[qualification_status |-> q,
      treatable_conditions |-> UndefinedList,
      non_treatable_conditions |-> UndefinedList,
      requires_manual_review |-> Undefined,
      should_show_alternative_primary_cell |-> FALSE,
      should_show_primary_cell |-> FALSE] : q \in {Undefined, "manual_review"}}

Analyses == CompleteAnalyses \cup IncompleteAnalyses

\* the quiz when the application is loaded: QuizProvider's initial state, Q1 shown
QuizAtLoad ==
    /\ path = Q1Path
    /\ state = initialState
    /\ local = FreshLocal(Q1Path, initialState)
    /\ pending = NothingPending
    /\ lastPost = NoPost

----------------------------------------------------------------------------
(* The Cellular Science page: data                                         *)

CellularPath == "/cellular-science"
DisqualifiedRoute == "/disqualified"
ConfirmationRoute == "/condition-confirmation"

\* the conditions of the two checkbox sections
TreatableIds == {"chronic_back_pain", "neuropathy"}
NonTreatableIds == {"autoimmune"}
CellConditionIds == TreatableIds \cup NonTreatableIds

\* what the respondent types into the textarea: nothing, white space, a word
CellTexts == {EmptyText, <<" ">>, <<"x">>}

NotStored == "(not stored)"

\* the page as it is mounted, with nothing answered, stored or decided yet
CellAtLoad ==
    cell = [location |-> CellularPath,
            selectedConditions |-> <<>>,
            otherConditions |-> EmptyText,
            validationError |-> FALSE,
            conditionType |-> "",
            disqualified |-> "",
            storedConditions |-> NotStored,
            storedOther |-> NotStored,
            storedLastPage |-> NotStored]

\* no call of submitAssessment yet
NoContact == [email |-> EmptyText, phone |-> EmptyText, name |-> EmptyText]

ContactAtLoad == contactInfo = NoContact

----------------------------------------------------------------------------
(* The request log: data                                                   *)

\* JSON values: strings, null, objects (a value for each of their keys), arrays
JStr(str) == [t |-> "string", s |-> str]
JNull == [t |-> "null"]
JObj(members) == [t |-> "object", f |-> members]
JArr(elements) == [t |-> "array", e |-> elements]

ObjectsOver(keys, values) ==
    {JObj(members) : members \in UNION {[ks -> values] : ks \in SUBSET keys}}

ArraysOf(values) == {JArr(<<>>)} \cup {JArr(<<v>>) : v \in values}

\* the keys of the request bodies: one that is personal, one that is not
BodyKeys == {"email", "items"}

JsonLeaves == {JStr("x"), JNull}
JsonLevel1 == ObjectsOver(BodyKeys, JsonLeaves) \cup ArraysOf(JsonLeaves)
JsonLevel2 ==
    ObjectsOver(BodyKeys, JsonLeaves \cup JsonLevel1) \cup ArraysOf(JsonLevel1)
JsonLevel3 == ObjectsOver({"items"}, JsonLevel2)
JsonValues == JsonLeaves \cup JsonLevel1 \cup JsonLevel2 \cup JsonLevel3

\* options.body: absent, the JSON text of a value, or a text that is not JSON
NoBody == [t |-> "undefined"]
JsonText(value) == [t |-> "text", json |-> TRUE, doc |-> value]
PlainText == [t |-> "text", json |-> FALSE]
Bodies == {NoBody, PlainText} \cup {JsonText(value) : value \in JsonValues}

NotLogged == [t |-> "(nothing logged)"]

\* nothing handed to the logger yet
LogAtLoad == logv = [dev |-> FALSE, body |-> NoBody, entry |-> NotLogged]

----------------------------------------------------------------------------
(* Initial state                                                           *)

\* the API client before the application has started it
ApiAtLoad ==
    /\ apc = "boot"
    /\ caller = "none"
    /\ method = "GET"
    /\ retryConfig = NoConfig
    /\ attempt = 0
    /\ lastError = NoError
    /\ csrfToken = 0
    /\ tokenSeq = 0
    /\ sent = <<>>
    /\ outcomes = <<>>
    /\ slept = <<>>
    /\ refreshCalls = 0
    /\ refreshed = "none"
    /\ refreshTok = 0
    /\ result = NoResult

InitApi ==
    /\ isTestEnv \in BOOLEAN
    /\ ApiAtLoad
    /\ QuizAtLoad
    /\ CellAtLoad
    /\ ContactAtLoad
    /\ LogAtLoad

----------------------------------------------------------------------------
(* The csrfToken module (src/utils/csrfToken, imported by validation.ts    *)
(* line 462 and not part of the sources): a token cached in memory.        *)

\* fetchCsrfToken() resolving: the server issues a token, which is cached
FetchedToken == tokenSeq + 1

----------------------------------------------------------------------------
(* Application start                                                       *)

\* initializeCsrfProtection: fetches the initial token; a failure is swallowed
InitializeCsrfProtection(ok) ==
    /\ apc = "boot"
    /\ apc' = "ready"
    /\ IF isTestEnv
       THEN ok /\ UNCHANGED <<csrfToken, tokenSeq>>
       ELSE IF ok
            THEN csrfToken' = FetchedToken /\ tokenSeq' = tokenSeq + 1
            ELSE UNCHANGED <<csrfToken, tokenSeq>>
    /\ UNCHANGED <<isTestEnv, caller, method, retryConfig, attempt, lastError, sent,
                   outcomes, slept, refreshCalls, refreshed, refreshTok, result>>
    /\ UNCHANGED <<quizVars, otherVars>>

\* clearSecurityTokens: clearCsrfToken(), callable whenever the event loop is free
ClearSecurityTokens ==
    /\ apc \in {"ready", "fetching"}
    /\ csrfToken # 0
    /\ csrfToken' = 0
    /\ UNCHANGED <<isTestEnv, apc, caller, method, retryConfig, attempt, lastError,
                   tokenSeq, sent, outcomes, slept, refreshCalls, refreshed, refreshTok,
                   result>>
    /\ UNCHANGED <<quizVars, otherVars>>

----------------------------------------------------------------------------
(* apiFetch                                                                *)

\* entry of apiFetch(url, options, retryConfig): the loop starts with attempt 0
EnterApiFetch(who, m, config) ==
    /\ caller' = who
    /\ method' = m
    /\ retryConfig' = config
    /\ attempt' = 0
    /\ apc' = "attempt"
    /\ UNCHANGED <<isTestEnv, lastError, csrfToken, tokenSeq, sent, outcomes, slept,
                   refreshCalls, refreshed, refreshTok, result>>
    /\ UNCHANGED <<quizVars, cell, logv>>

\* a return of the exported function before apiFetch is entered
ReturnEarly(who, code) ==
    /\ caller' = who
    /\ apc' = "returned"
    /\ result' = [success |-> FALSE, code |-> code]
    /\ UNCHANGED <<isTestEnv, method, retryConfig, attempt, lastError, csrfToken, tokenSeq,
                   sent, outcomes, slept, refreshCalls, refreshed, refreshTok>>
    /\ UNCHANGED <<quizVars, cell, logv>>

\* apiFetch called with any method and any retry configuration
ApiFetch(m, config) ==
    /\ apc = "ready"
    /\ EnterApiFetch("apiFetch", m, config)
    /\ UNCHANGED contactInfo

\* isValidEmail: /^[^\s@]+@[^\s@]+\.[^\s@]+$/, one "@" with a dot somewhere after
\* it, something before the "@", between the two and after the dot, no white space
IsValidEmail(email) ==
    \E i, j \in 1..Len(email) :
        /\ 1 < i /\ i + 1 < j /\ j < Len(email)
        /\ email[i] = "@"
        /\ email[j] = "."
        /\ \A k \in 1..Len(email) : k # i => email[k] \notin WhiteSpace \cup {"@"}

\* the characters of /[\d\s\-\+\(\)]/
PhoneChars ==
    {"0", "1", "2", "3", "4", "5", "6", "7", "8", "9", "-", "+", "(", ")"}
        \cup WhiteSpace

\* isValidPhone: /^[\d\s\-\+\(\)]{10,}$/
IsValidPhone(phone) ==
    /\ Len(phone) >= 10
    /\ \A k \in 1..Len(phone) : phone[k] \in PhoneChars

\* the contact information submitAssessment is called with
Emails ==
    {EmptyText,
     <<"a", "@", "b", ".", "c">>,
     <<"a", "@", "b", ".", "c", ".", "d">>,
     <<"a", "@", "b">>,
     <<"a", " ", "b", "@", "c", ".", "d">>,
     <<"@", "b", ".", "c">>,
     <<"a", "@", ".", "c">>,
     <<"a", "@", "@", "b", ".", "c">>}

Phones ==
    {EmptyText,
     <<"5", "5", "5", "-", "1", "2", "3", "-", "4", "5", "6", "7">>,
     <<"5", "5", "5", "1", "2", "3", "4", "5", "6">>,
     <<"5", "5", "5", "1", "2", "3", "4", "5", "6", "x">>}

Names ==
    {EmptyText, <<"a">>, <<" ", "a", " ">>, <<" ", "a", "b", " ">>}

ContactInfos == [email : Emails, phone : Phones, name : Names]

Passed == "(passed)"

SubmitCheck_PhoneFirst(info) ==
    IF info.phone # EmptyText /\ ~IsValidPhone(info.phone) THEN "INVALID_PHONE"
    ELSE IF info.email = EmptyText \/ ~IsValidEmail(info.email) THEN "INVALID_EMAIL"
    ELSE IF info.name = EmptyText \/ Len(Trim(info.name)) < 2 THEN "VALIDATION_ERROR"
    ELSE Passed

\* "Validate contact info": the code of the first check that fails
SubmitCheck(info) ==
    IF info.email = EmptyText \/ ~IsValidEmail(info.email) THEN "INVALID_EMAIL"
    ELSE IF info.phone # EmptyText /\ ~IsValidPhone(info.phone) THEN "INVALID_PHONE"
    ELSE IF info.name = EmptyText \/ Len(Trim(info.name)) < 2 THEN "VALIDATION_ERROR"
    ELSE Passed

\* submitAssessment: the contact information is validated before the POST
SubmitAssessment(info) ==
    /\ apc = "ready"
    /\ contactInfo' = info
    /\ IF SubmitCheck(info) # Passed
       THEN ReturnEarly("submitAssessment", SubmitCheck(info))
       ELSE EnterApiFetch("submitAssessment", "POST", DEFAULT_RETRY_CONFIG)

SaveProgress ==
    /\ apc = "ready"
    /\ EnterApiFetch("saveProgress", "POST", LOW_RETRY_CONFIG)
    /\ UNCHANGED contactInfo

SendEmailResults(emailValid, hasAssessmentId) ==
    /\ apc = "ready"
    /\ IF ~emailValid THEN ReturnEarly("sendEmailResults", "INVALID_EMAIL")
       ELSE IF ~hasAssessmentId THEN ReturnEarly("sendEmailResults", "VALIDATION_ERROR")
       ELSE EnterApiFetch("sendEmailResults", "POST", DEFAULT_RETRY_CONFIG)
    /\ UNCHANGED contactInfo

CheckApiHealth ==
    /\ apc = "ready"
    /\ EnterApiFetch("checkApiHealth", "GET", LOW_RETRY_CONFIG)
    /\ UNCHANGED contactInfo

\* top of a loop iteration up to the fetch(url): the token is taken from the cache or
\* fetched (tokenFetched: the fetch of a token succeeds), the header is set when there
\* is a token, and the request is sent
SendRequest(tokenFetched) ==
    /\ apc = "attempt"
    /\ LET useCsrf == ShouldUseCsrf(method, isTestEnv)
           needFetch == useCsrf /\ csrfToken = 0
           token == IF ~useCsrf THEN 0
                    ELSE IF csrfToken # 0 THEN csrfToken
                    ELSE IF tokenFetched THEN FetchedToken
                    ELSE 0
       IN /\ (~needFetch => tokenFetched)
          /\ IF needFetch /\ tokenFetched
             THEN csrfToken' = FetchedToken /\ tokenSeq' = tokenSeq + 1
             ELSE UNCHANGED <<csrfToken, tokenSeq>>
          /\ sent' = Append(sent, [attempt |-> attempt, header |-> token,
                                   cached |-> csrfToken,
                                   fetched |-> needFetch /\ tokenFetched])
    /\ apc' = "fetching"
    /\ UNCHANGED <<isTestEnv, caller, method, retryConfig, attempt, lastError, outcomes,
                   slept, refreshCalls, refreshed, refreshTok, result>>
    /\ UNCHANGED <<quizVars, otherVars>>

\* the call returns r
Return(r) ==
    /\ apc' = "returned"
    /\ result' = r

\* the catch block: error normalised, then retry after a sleep or leave the loop
Catch(o) ==
    LET error == CaughtError(o)
    IN /\ lastError' = error
       /\ IF ShouldRetry(attempt, retryConfig, error)
          THEN /\ slept' = Append(slept, [attempt |-> attempt,
                                          delay |-> GetRetryDelay(attempt, retryConfig)])
               /\ apc' = "sleeping"
               /\ UNCHANGED result
          ELSE /\ Return(AfterLoop(error))
               /\ UNCHANGED slept

\* the awaited fetch settles with outcome o and the rest of the iteration runs
HandleOutcome(o) ==
    /\ apc = "fetching"
    /\ outcomes' = Append(outcomes, o)
    /\ IF o.kind = "response" /\ o.status = 403 /\ ShouldUseCsrf(method, isTestEnv)
       THEN \* "Handle 403 Forbidden - likely CSRF token issue"
            IF IsCsrfError(o)
            THEN IF MayRefresh(attempt)
                 THEN /\ apc' = "refreshing"
                      /\ refreshCalls' = refreshCalls + 1
                      /\ refreshed' = "pending"
                      /\ UNCHANGED <<result, lastError, slept, csrfToken, tokenSeq>>
                 ELSE /\ Return([success |-> FALSE, code |-> "CSRF_TOKEN_INVALID"])
                      /\ UNCHANGED <<refreshCalls, refreshed, lastError, slept, csrfToken,
                                     tokenSeq>>
            ELSE /\ Return([success |-> FALSE, code |-> "FORBIDDEN"])
                 /\ UNCHANGED <<refreshCalls, refreshed, lastError, slept, csrfToken,
                                tokenSeq>>
       ELSE IF o.kind = "response" /\ ~ResponseOk(o.status) /\ IsClientError(o.status)
       THEN \* "Don't retry client errors (4xx) except 403 (handled above)"
            /\ Return([success |-> FALSE, code |-> MapHttpStatusToErrorCode(o.status)])
            /\ UNCHANGED <<refreshCalls, refreshed, lastError, slept, csrfToken, tokenSeq>>
       ELSE IF o.kind = "response" /\ ResponseOk(o.status) /\ o.json
       THEN \* parsed; a token in the response's X-CSRF-Token header is cached
            /\ Return([success |-> TRUE, code |-> "NONE"])
            /\ IF o.newToken
               THEN csrfToken' = FetchedToken /\ tokenSeq' = tokenSeq + 1
               ELSE UNCHANGED <<csrfToken, tokenSeq>>
            /\ UNCHANGED <<refreshCalls, refreshed, lastError, slept>>
       ELSE \* thrown: fetch rejected, aborted, status >= 500 or 3xx, or a body that
            \* does not parse
            /\ Catch(o)
            /\ UNCHANGED <<refreshCalls, refreshed, csrfToken, tokenSeq>>
    /\ UNCHANGED <<isTestEnv, caller, method, retryConfig, attempt, sent, refreshTok>>
    /\ UNCHANGED <<quizVars, otherVars>>

\* "continue": attempt++ and the loop condition, leaving the loop when it fails
Continue ==
    /\ attempt' = attempt + 1
    /\ IF LoopCondition(attempt + 1, retryConfig)
       THEN apc' = "attempt" /\ UNCHANGED result
       ELSE Return(AfterLoop(lastError))

\* refreshCsrfToken() settles: the old token is dropped and, on success, the new cached
RefreshSettles(ok) ==
    /\ apc = "refreshing"
    /\ IF ok
       THEN /\ csrfToken' = FetchedToken
            /\ tokenSeq' = tokenSeq + 1
            /\ refreshTok' = FetchedToken
            /\ refreshed' = "ok"
            /\ Continue
       ELSE /\ csrfToken' = 0
            /\ refreshed' = "failed"
            /\ Return([success |-> FALSE, code |-> "CSRF_TOKEN_INVALID"])
            /\ UNCHANGED <<tokenSeq, refreshTok, attempt>>
    /\ UNCHANGED <<isTestEnv, caller, method, retryConfig, lastError, sent, outcomes,
                   slept, refreshCalls>>
    /\ UNCHANGED <<quizVars, otherVars>>

\* the sleep before a retry is over
SleepOver ==
    /\ apc = "sleeping"
    /\ Continue
    /\ UNCHANGED <<isTestEnv, caller, method, retryConfig, lastError, csrfToken, tokenSeq,
                   sent, outcomes, slept, refreshCalls, refreshed, refreshTok>>
    /\ UNCHANGED <<quizVars, otherVars>>

NextApi ==
    \/ \E ok \in BOOLEAN : InitializeCsrfProtection(ok)
    \/ ClearSecurityTokens
    \/ \E m \in Methods, config \in GenericRetryConfigs : ApiFetch(m, config)
    \/ \E info \in ContactInfos : SubmitAssessment(info)
    \/ SaveProgress
    \/ \E e \in BOOLEAN, a \in BOOLEAN : SendEmailResults(e, a)
    \/ CheckApiHealth
    \/ \E tokenFetched \in BOOLEAN : SendRequest(tokenFetched)
    \/ \E o \in Outcomes : HandleOutcome(o)
    \/ \E ok \in BOOLEAN : RefreshSettles(ok)
    \/ SleepOver

SpecApi == InitApi /\ [][NextApi]_vars

----------------------------------------------------------------------------
(* The quiz pages                                                          *)

\* navigate(to) at the end of a handler that leaves the quiz state st, the page's own
\* state loc and the pending callbacks pend: the page at the new location is mounted
\* with fresh useState values; the callbacks of the page that is left stay pending.
\* Of the history stack the model keeps the entry under the Welcome page and under Q4
\* (cameFrom), and the Welcome entries pushed on top of a Welcome entry
Navigate(to, st, loc, pend) ==
    LET target == ResolveRoute(to)
    IN /\ path' = target
       /\ state' = st
       /\ IF target = path
          THEN /\ local' = IF target = WelcomePath
                           THEN [loc EXCEPT !.welcomeDepth = @ + 1]
                           ELSE loc
               /\ pending' = pend
          ELSE /\ local' = IF target \in {WelcomePath, Q4Path,
                                            EducationPath, EducationNonePath}
                           THEN [FreshLocal(target, st) EXCEPT !.cameFrom = path]
                           ELSE FreshLocal(target, st)
               /\ pending' = [pend EXCEPT
                     !.q1Stale = @ + loc.q1Timers,
                     !.contactStale = @ + (IF loc.isSubmitting THEN 1 ELSE 0)]

\* a handler that ends without navigating
Stay(st, loc, pend) ==
    /\ path' = path
    /\ state' = st
    /\ local' = loc
    /\ pending' = pend

\* fetch(url, { method: 'POST', headers: { 'Content-Type': 'application/json' }, ... })
QuizPost(url) == [url |-> url, csrf |-> FALSE]

(* ---- Q1 Duration ---- *)

\* handleSelect navigates at once for this value
Q1NavigatesOnSelect(value) == value = "6_months_or_less"

\* handleSelect; the option buttons are still there while the question panel
\* animates out, so a choice can follow the education timer
Q1Select(value) ==
    /\ path = Q1Path
    /\ LET st == [state EXCEPT !.painDuration = value]
       IN IF Q1NavigatesOnSelect(value)
          THEN Navigate(TooSoonPath, st, local, pending)
          ELSE /\ local.q1Timers + pending.q1Stale < MaxTimers
               /\ Stay(st, [local EXCEPT !.q1Timers = @ + 1], pending)
    /\ UNCHANGED <<lastPost, apiVars, otherVars>>

\* setTimeout(() => setShowEducation(true), 300) of the mounted Q1
Q1EducationTimer ==
    /\ local.q1Timers > 0
    /\ Stay(state, [local EXCEPT !.q1Timers = @ - 1, !.showEducation = TRUE], pending)
    /\ UNCHANGED <<lastPost, apiVars, otherVars>>

\* the same timer of a Q1 that has been unmounted: setShowEducation has no effect
Q1StaleTimer ==
    /\ pending.q1Stale > 0
    /\ Stay(state, local, [pending EXCEPT !.q1Stale = @ - 1])
    /\ UNCHANGED <<lastPost, apiVars, otherVars>>

Q1Continue ==
    /\ path = Q1Path
    /\ local.showEducation
    /\ Navigate(Q2Path, state, local, pending)
    /\ UNCHANGED <<lastPost, apiVars, otherVars>>

(* ---- Disqualified, too soon ---- *)

TooSoonSubmit ==
    /\ path = TooSoonPath
    /\ Stay([state EXCEPT !.wantsNotification = TRUE], local, pending)
    /\ lastPost' = QuizPost("/api/quiz/disqualified-waiting-list")
    /\ UNCHANGED <<apiVars, otherVars>>

TooSoonNoThanks ==
    /\ path = TooSoonPath
    /\ Navigate("/", state, local, pending)
    /\ UNCHANGED <<lastPost, apiVars, otherVars>>

\* the Back button under the form
TooSoonBack ==
    /\ path = TooSoonPath
    /\ Navigate(Q1Path, state, local, pending)
    /\ UNCHANGED <<lastPost, apiVars, otherVars>>

(* ---- Q2 Treatments ---- *)

Q2Toggled_KeepNone(selected, id) ==
    IF id \in selected THEN selected \ {id} ELSE selected \cup {id}

\* the selection after handleToggle(id)
Q2Toggled(selected, id) ==
    IF id = "none"
    THEN {"none"}
    ELSE LET filtered == selected \ {"none"}
         IN IF id \in selected THEN filtered \ {id} ELSE filtered \cup {id}

Q2Toggle(id) ==
    /\ path = Q2Path
    /\ Stay(state, [local EXCEPT !.q2Selected = Q2Toggled(@, id)], pending)
    /\ UNCHANGED <<lastPost, apiVars, otherVars>>

Q2Continue ==
    /\ path = Q2Path
    /\ local.q2Selected # {}
    /\ LET st == [state EXCEPT !.treatmentsTried = local.q2Selected]
       IN IF "none" \in local.q2Selected
          THEN Navigate(EducationNonePath, st, local, pending)
          ELSE Navigate(ConnectingPath, st, local, pending)
    /\ UNCHANGED <<lastPost, apiVars, otherVars>>

Q2Back ==
    /\ path = Q2Path
    /\ Navigate(Q1Path, state, local, pending)
    /\ UNCHANGED <<lastPost, apiVars, otherVars>>

(* ---- Connecting message, education pages ---- *)

ConnectingContinue ==
    /\ path = ConnectingPath
    /\ Navigate(EducationPath, state, local, pending)
    /\ UNCHANGED <<lastPost, apiVars, otherVars>>

ConnectingBack ==
    /\ path = ConnectingPath
    /\ Navigate(Q2Path, state, local, pending)
    /\ UNCHANGED <<lastPost, apiVars, otherVars>>

\* the education page for respondents who tried treatments: as its "None" version,
\* with Back to the connecting message
EducationContinue ==
    /\ path = EducationPath
    /\ Navigate(Q3Path, state, local, pending)
    /\ UNCHANGED <<lastPost, apiVars, otherVars>>

EducationBack ==
    /\ path = EducationPath
    /\ Navigate(ConnectingPath, state, local, pending)
    /\ UNCHANGED <<lastPost, apiVars, otherVars>>

EducationNoneContinue ==
    /\ path = EducationNonePath
    /\ Navigate(Q3Path, state, local, pending)
    /\ UNCHANGED <<lastPost, apiVars, otherVars>>

EducationNoneBack ==
    /\ path = EducationNonePath
    /\ Navigate(Q2Path, state, local, pending)
    /\ UNCHANGED <<lastPost, apiVars, otherVars>>

(* ---- Q3 Conditions ---- *)

Q3Toggle(id) ==
    /\ path = Q3Path
    /\ Stay(state,
            [local EXCEPT !.q3Selected = IF id \in @ THEN @ \ {id} ELSE @ \cup {id}],
            pending)
    /\ UNCHANGED <<lastPost, apiVars, otherVars>>

Q3TypeOther(text) ==
    /\ path = Q3Path
    /\ text # local.q3OtherText
    /\ Stay(state, [local EXCEPT !.q3OtherText = text], pending)
    /\ UNCHANGED <<lastPost, apiVars, otherVars>>

\* handleContinue up to its await: the answers are stored and the analysis requested
Q3Continue ==
    /\ path = Q3Path
    /\ ~(local.q3Selected = {} /\ Trim(local.q3OtherText) = EmptyText)
    /\ pending.q3Fetches < MaxPending
    /\ Stay([state EXCEPT !.conditions = local.q3Selected,
                          !.conditionOther = local.q3OtherText],
            local,
            [pending EXCEPT !.q3Fetches = @ + 1])
    /\ lastPost' = QuizPost("/api/quiz/analyze-conditions")
    /\ UNCHANGED <<apiVars, otherVars>>

NoRoute == "(none)"

\* "Route based on analysis": the path handleContinue navigates to for analysis a;
\* reading .length of a list that is not there throws, which the catch block routes
Q3Route(a) ==
    IF a.qualification_status = "disqualified_non_treatable" THEN NonTreatablePath
    ELSE IF a.qualification_status = "manual_review"
            /\ a.treatable_conditions = UndefinedList THEN PrimaryCellPath
    ELSE IF a.qualification_status = "manual_review"
            /\ a.treatable_conditions = {} THEN ManualReviewPath
    ELSE IF a.should_show_alternative_primary_cell THEN ManualReviewPath
    ELSE IF a.should_show_primary_cell THEN PrimaryCellPath
    ELSE NoRoute

\* SET_QUALIFICATION_STATUS with the fields of analysis a
SetQualificationStatus(st, a) ==
    [st EXCEPT !.qualificationStatus = a.qualification_status,
               !.treatableConditions = a.treatable_conditions,
               !.nonTreatableConditions = a.non_treatable_conditions,
               !.requiresManualReview = a.requires_manual_review]

\* the rest of handleContinue once the response's JSON is there; it runs whatever page
\* is shown by then
Q3AnalysisArrives(a) ==
    /\ pending.q3Fetches > 0
    /\ LET st == SetQualificationStatus(state, a)
           pend == [pending EXCEPT !.q3Fetches = @ - 1]
       IN IF Q3Route(a) = NoRoute
          THEN Stay(st, local, pend)
          ELSE Navigate(Q3Route(a), st, local, pend)
    /\ UNCHANGED <<lastPost, apiVars, otherVars>>

\* fetch rejects or the body is no JSON: the catch block's fallback routing
Q3AnalysisFails(how) ==
    /\ pending.q3Fetches > 0
    /\ how \in {"network", "not_json"}
    /\ Navigate(PrimaryCellPath, state, local, [pending EXCEPT !.q3Fetches = @ - 1])
    /\ UNCHANGED <<lastPost, apiVars, otherVars>>

HasTreatments_LengthOnly(st) ==
    st.treatmentsTried # {}

\* handleBack's hasTreatments: some treatment was tried and 'none' is not among them
HasTreatments(st) ==
    st.treatmentsTried # {} /\ "none" \notin st.treatmentsTried

Q3Back ==
    /\ path = Q3Path
    /\ LET hasTreatments == HasTreatments(state)
       IN IF hasTreatments
          THEN Navigate(EducationPath, state, local, pending)
          ELSE Navigate(EducationNonePath, state, local, pending)
    /\ UNCHANGED <<lastPost, apiVars, otherVars>>

(* ---- Disqualified, non-treatable ---- *)

NonTreatableSubmit ==
    /\ path = NonTreatablePath
    /\ Stay([state EXCEPT !.wantsNotification = TRUE], local, pending)
    /\ lastPost' = QuizPost("/api/quiz/disqualified-notify-me")
    /\ UNCHANGED <<apiVars, otherVars>>

NonTreatableNoThanks ==
    /\ path = NonTreatablePath
    /\ Navigate("/", state, local, pending)
    /\ UNCHANGED <<lastPost, apiVars, otherVars>>

\* the Back button under the form
NonTreatableBack ==
    /\ path = NonTreatablePath
    /\ Navigate(Q3Path, state, local, pending)
    /\ UNCHANGED <<lastPost, apiVars, otherVars>>

(* ---- Manual review and the explanation pages ---- *)

ManualReviewContinue ==
    /\ path = ManualReviewPath
    /\ Navigate(AlternativePath, state, local, pending)
    /\ UNCHANGED <<lastPost, apiVars, otherVars>>

ManualReviewBack ==
    /\ path = ManualReviewPath
    /\ Navigate(Q3Path, state, local, pending)
    /\ UNCHANGED <<lastPost, apiVars, otherVars>>

AlternativeContinue ==
    /\ path = AlternativePath
    /\ Navigate(Q4Path, state, local, pending)
    /\ UNCHANGED <<lastPost, apiVars, otherVars>>

AlternativeBack ==
    /\ path = AlternativePath
    /\ Navigate(ManualReviewPath, state, local, pending)
    /\ UNCHANGED <<lastPost, apiVars, otherVars>>

PrimaryCellContinue ==
    /\ path = PrimaryCellPath
    /\ Navigate(Q4Path, state, local, pending)
    /\ UNCHANGED <<lastPost, apiVars, otherVars>>

PrimaryCellBack ==
    /\ path = PrimaryCellPath
    /\ Navigate(Q3Path, state, local, pending)
    /\ UNCHANGED <<lastPost, apiVars, otherVars>>

(* ---- Q4 to Q7 ---- *)

Q4Toggle(id) ==
    /\ path = Q4Path
    /\ Stay(state,
            [local EXCEPT !.q4Selected = IF id \in @ THEN @ \ {id} ELSE @ \cup {id}],
            pending)
    /\ UNCHANGED <<lastPost, apiVars, otherVars>>

Q4Continue ==
    /\ path = Q4Path
    /\ local.q4Selected # {}
    /\ Navigate(Q5Path, [state EXCEPT !.missingActivities = local.q4Selected], local,
                pending)
    /\ UNCHANGED <<lastPost, apiVars, otherVars>>

Q4Back ==
    /\ path = Q4Path
    /\ IF state.qualificationStatus = "manual_review"
       THEN Navigate(AlternativePath, state, local, pending)
       ELSE Navigate(PrimaryCellPath, state, local, pending)
    /\ UNCHANGED <<lastPost, apiVars, otherVars>>

Q5Select(id) ==
    /\ path = Q5Path
    /\ Stay([state EXCEPT !.urgencyLevel = id], local, pending)
    /\ UNCHANGED <<lastPost, apiVars, otherVars>>

\* the button is disabled until an option is selected; the page's selection and
\* urgencyLevel are set together
Q5Continue ==
    /\ path = Q5Path
    /\ state.urgencyLevel # ""
    /\ Navigate(Q6Path, state, local, pending)
    /\ UNCHANGED <<lastPost, apiVars, otherVars>>

Q5Back ==
    /\ path = Q5Path
    /\ Navigate(Q4Path, state, local, pending)
    /\ UNCHANGED <<lastPost, apiVars, otherVars>>

\* handleSelect: the answer is stored and the auto-advance timer started
Q6Select(id) ==
    /\ path = Q6Path
    /\ pending.q6Timers < MaxTimers
    /\ Stay([state EXCEPT !.annualSpending = id], local,
            [pending EXCEPT !.q6Timers = @ + 1])
    /\ UNCHANGED <<lastPost, apiVars, otherVars>>

\* the timer's callback; nothing clears the timer when Q6 is left
Q6AdvanceTimer ==
    /\ pending.q6Timers > 0
    /\ Navigate(Q7Path, state, local, [pending EXCEPT !.q6Timers = @ - 1])
    /\ UNCHANGED <<lastPost, apiVars, otherVars>>

Q6Back ==
    /\ path = Q6Path
    /\ Navigate(Q5Path, state, local, pending)
    /\ UNCHANGED <<lastPost, apiVars, otherVars>>

Q7Continue ==
    /\ path = Q7Path
    /\ IF state.qualificationStatus = "manual_review" \/ state.conditionOther # EmptyText
       THEN Navigate(CongratulationsAltPath, state, local, pending)
       ELSE Navigate(CongratulationsPath, state, local, pending)
    /\ UNCHANGED <<lastPost, apiVars, otherVars>>

Q7Back ==
    /\ path = Q7Path
    /\ Navigate(Q6Path, state, local, pending)
    /\ UNCHANGED <<lastPost, apiVars, otherVars>>

(* ---- Congratulations ---- *)

\* handleSubmit up to its await; the button is disabled while isSubmitting
CongratulationsSubmit ==
    /\ path = CongratulationsPath
    /\ ~local.isSubmitting
    /\ pending.contactStale < MaxPending
    /\ Stay(state, [local EXCEPT !.isSubmitting = TRUE], pending)
    /\ lastPost' = QuizPost("/api/quiz/submit-contact")
    /\ UNCHANGED <<apiVars, otherVars>>

\* how the submit-contact request can end: a 2xx response, a response with an error
\* status, or no response
ContactAnswers == {"accepted", "error_status", "network"}

\* fetch resolves with every response, whatever its status, and rejects without one
FetchResolves(answer) == answer # "network"

\* the awaited fetch settles while the form is still mounted: resolved it navigates
\* (the response is not looked at), rejected it alerts and re-enables the button
CongratulationsSettles(answer) ==
    /\ path = CongratulationsPath
    /\ local.isSubmitting
    /\ answer \in ContactAnswers
    /\ IF FetchResolves(answer)
       THEN Navigate(WelcomePath, state, [local EXCEPT !.isSubmitting = FALSE], pending)
       ELSE Stay(state, [local EXCEPT !.isSubmitting = FALSE], pending)
    /\ UNCHANGED <<lastPost, apiVars, otherVars>>

\* the same after the form has been left
CongratulationsSettlesLate(answer) ==
    /\ pending.contactStale > 0
    /\ answer \in ContactAnswers
    /\ IF FetchResolves(answer)
       THEN Navigate(WelcomePath, state, local, [pending EXCEPT !.contactStale = @ - 1])
       ELSE Stay(state, local, [pending EXCEPT !.contactStale = @ - 1])
    /\ UNCHANGED <<lastPost, apiVars, otherVars>>

CongratulationsBack ==
    /\ path = CongratulationsPath
    /\ Navigate(Q7Path, state, local, pending)
    /\ UNCHANGED <<lastPost, apiVars, otherVars>>

(* ---- Welcome ---- *)

\* handleBack: navigate(-1), one entry back in the history stack
WelcomeBack ==
    /\ path = WelcomePath
    /\ IF local.welcomeDepth > 0
       THEN Stay(state, [local EXCEPT !.welcomeDepth = @ - 1], pending)
       ELSE Navigate(local.cameFrom, state, local, pending)
    /\ UNCHANGED <<lastPost, apiVars, otherVars>>

InitQuiz ==
    /\ isTestEnv = FALSE
    /\ ApiAtLoad
    /\ QuizAtLoad
    /\ CellAtLoad
    /\ ContactAtLoad
    /\ LogAtLoad

NextQuiz ==
    \/ \E v \in {"6_months_or_less", "more_than_6_months"} : Q1Select(v)
    \/ Q1EducationTimer
    \/ Q1StaleTimer
    \/ Q1Continue
    \/ TooSoonSubmit
    \/ TooSoonNoThanks
    \/ TooSoonBack
    \/ \E id \in Treatments : Q2Toggle(id)
    \/ Q2Continue
    \/ Q2Back
    \/ ConnectingContinue
    \/ ConnectingBack
    \/ EducationContinue
    \/ EducationBack
    \/ EducationNoneContinue
    \/ EducationNoneBack
    \/ \E id \in Conditions : Q3Toggle(id)
    \/ \E text \in OtherTexts : Q3TypeOther(text)
    \/ Q3Continue
    \/ \E a \in Analyses : Q3AnalysisArrives(a)
    \/ \E how \in {"network", "not_json"} : Q3AnalysisFails(how)
    \/ Q3Back
    \/ NonTreatableSubmit
    \/ NonTreatableNoThanks
    \/ NonTreatableBack
    \/ ManualReviewContinue
    \/ ManualReviewBack
    \/ AlternativeContinue
    \/ AlternativeBack
    \/ PrimaryCellContinue
    \/ PrimaryCellBack
    \/ \E id \in Activities : Q4Toggle(id)
    \/ Q4Continue
    \/ Q4Back
    \/ \E id \in UrgencyLevels : Q5Select(id)
    \/ Q5Continue
    \/ Q5Back
    \/ \E id \in SpendingOptions : Q6Select(id)
    \/ Q6AdvanceTimer
    \/ Q6Back
    \/ Q7Continue
    \/ Q7Back
    \/ CongratulationsSubmit
    \/ \E answer \in ContactAnswers : CongratulationsSettles(answer)
    \/ \E answer \in ContactAnswers : CongratulationsSettlesLate(answer)
    \/ CongratulationsBack
    \/ WelcomeBack

SpecQuiz == InitQuiz /\ [][NextQuiz]_vars

\* the first part of the walk, up to the conditions question: the pages before the
\* analysis is requested
NextQuizStart ==
    \/ \E v \in {"6_months_or_less", "more_than_6_months"} : Q1Select(v)
    \/ Q1EducationTimer
    \/ Q1StaleTimer
    \/ Q1Continue
    \/ TooSoonSubmit
    \/ TooSoonNoThanks
    \/ TooSoonBack
    \/ \E id \in Treatments : Q2Toggle(id)
    \/ Q2Continue
    \/ Q2Back
    \/ ConnectingContinue
    \/ ConnectingBack
    \/ EducationContinue
    \/ EducationBack
    \/ EducationNoneContinue
    \/ EducationNoneBack
    \/ \E id \in Conditions : Q3Toggle(id)
    \/ \E text \in OtherTexts : Q3TypeOther(text)
    \/ Q3Back

SpecQuizStart == InitQuiz /\ [][NextQuizStart]_vars

----------------------------------------------------------------------------
(* The Cellular Science page                                               *)

\* isConditionTreatable of @data/conditions: the condition is one of the treatable
\* section
IsConditionTreatable(id) == id \in TreatableIds

\* the elements of a list
Elements(list) == {list[i] : i \in 1..Len(list)}

\* prev.filter((id) => id !== conditionId)
Without(list, conditionId) == SelectSeq(list, LAMBDA id : id # conditionId)

\* handleConditionToggle
HandleConditionToggle(conditionId) ==
    /\ cell.location = CellularPath
    /\ cell' = [cell EXCEPT
          !.selectedConditions =
              IF conditionId \in Elements(@)
              THEN Without(@, conditionId)
              ELSE Append(@, conditionId),
          !.validationError = FALSE]
    /\ UNCHANGED <<apiVars, quizVars, contactInfo, logv>>

\* handleOtherConditionsChange
HandleOtherConditionsChange(text) ==
    /\ cell.location = CellularPath
    /\ text # cell.otherConditions
    /\ cell' = [cell EXCEPT !.otherConditions = text, !.validationError = FALSE]
    /\ UNCHANGED <<apiVars, quizVars, contactInfo, logv>>

\* validateSubmission's verdict
ValidateSubmission(selectedConditions, otherConditions) ==
    LET hasSelectedConditions == Len(selectedConditions) > 0
        hasOtherConditions == Len(Trim(otherConditions)) > 0
    IN ~(~hasSelectedConditions /\ ~hasOtherConditions)

DetermineRoute_AnyNonTreatable(selectedConditions, otherConditions) ==
    IF \E id \in Elements(selectedConditions) : ~IsConditionTreatable(id)
    THEN DisqualifiedRoute
    ELSE ConfirmationRoute

\* determineRoute
DetermineRoute(selectedConditions, otherConditions) ==
    LET hasSelectedConditions == Len(selectedConditions) > 0
        hasOtherConditions == Len(Trim(otherConditions)) > 0
        hasTreatable ==
            \E id \in Elements(selectedConditions) : IsConditionTreatable(id)
        hasNonTreatable ==
            \E id \in Elements(selectedConditions) : ~IsConditionTreatable(id)
    IN IF hasSelectedConditions /\ hasNonTreatable /\ ~hasTreatable
       THEN DisqualifiedRoute
       ELSE IF hasSelectedConditions /\ hasTreatable THEN ConfirmationRoute
       ELSE IF hasOtherConditions /\ ~hasSelectedConditions THEN ConfirmationRoute
       ELSE DisqualifiedRoute

\* handleSubmit; the three localStorage.setItem calls are in one try block, so the
\* first that throws ends the writing: written of them succeed
HandleSubmit(written) ==
    /\ cell.location = CellularPath
    /\ written \in 0..3
    /\ IF ~ValidateSubmission(cell.selectedConditions, cell.otherConditions)
       THEN /\ written = 0
            /\ cell' = [cell EXCEPT !.validationError = TRUE]
       ELSE LET route == DetermineRoute(cell.selectedConditions, cell.otherConditions)
                conditionTypeValue ==
                    IF cell.selectedConditions # <<>>
                    THEN Head(cell.selectedConditions)
                    ELSE "other"
            IN cell' = [cell EXCEPT
                  !.conditionType = conditionTypeValue,
                  !.storedConditions =
                      IF written >= 1 THEN cell.selectedConditions ELSE @,
                  !.storedOther = IF written >= 2 THEN cell.otherConditions ELSE @,
                  !.storedLastPage = IF written >= 3 THEN CellularPath ELSE @,
                  !.disqualified =
                      IF route = DisqualifiedRoute THEN "non-treatable" ELSE @,
                  !.location = route]
    /\ UNCHANGED <<apiVars, quizVars, contactInfo, logv>>

InitCellular ==
    /\ isTestEnv = FALSE
    /\ ApiAtLoad
    /\ QuizAtLoad
    /\ CellAtLoad
    /\ ContactAtLoad
    /\ LogAtLoad

NextCellular ==
    \/ \E conditionId \in CellConditionIds : HandleConditionToggle(conditionId)
    \/ \E text \in CellTexts : HandleOtherConditionsChange(text)
    \/ \E written \in 0..3 : HandleSubmit(written)

SpecCellular == InitCellular /\ [][NextCellular]_vars

----------------------------------------------------------------------------
(* The request log                                                         *)

piiFields == {"name", "email", "phone", "phoneNumber", "contactInfo"}

Redacted == JStr("[REDACTED]")

\* the keys { ...data } gives an array: its indices
IndexKeys == <<"0", "1">>

\* JavaScript truthiness of a parsed value
Truthy(value) == ~(value.t \in {"null", "undefined"} \/ value = JStr(""))

\* typeof value === 'object' for a value that is not null
IsObject(value) == value.t \in {"object", "array"}

\* { ...(data as Record<string, unknown>) }
Spread(data) ==
    IF data.t = "array"
    THEN [k \in {IndexKeys[i] : i \in 1..Len(data.e)} |->
             data.e[CHOOSE i \in 1..Len(data.e) : IndexKeys[i] = k]]
    ELSE data.f

SanitizeForLogging_TopLevel(data) ==
    IF ~Truthy(data) \/ ~IsObject(data)
    THEN data
    ELSE JObj([k \in DOMAIN Spread(data) |->
                  IF k \in piiFields THEN Redacted ELSE Spread(data)[k]])

\* sanitizeForLogging
RECURSIVE SanitizeForLogging(_)
SanitizeForLogging(data) ==
    IF ~Truthy(data) \/ ~IsObject(data)
    THEN data
    ELSE LET sanitized ==
                 [k \in DOMAIN Spread(data) |->
                     IF k \in piiFields THEN Redacted ELSE Spread(data)[k]]
         IN JObj([key \in DOMAIN sanitized |->
                     IF Truthy(sanitized[key]) /\ IsObject(sanitized[key])
                     THEN SanitizeForLogging(sanitized[key])
                     ELSE sanitized[key]])

\* JSON.parse(payload) in its try block: the value of a JSON text, the text itself when
\* it does not parse
ParsedPayload(payload) ==
    IF payload.t = "text" /\ payload.json THEN payload.doc ELSE payload

\* logRequest(method, url, payload): in a development build an entry with the
\* sanitized payload is written to the console
LogRequest ==
    /\ logv.entry = NotLogged
    /\ logv.dev
    /\ LET parsedPayload == ParsedPayload(logv.body)
           sanitizedPayload ==
               IF Truthy(parsedPayload)
               THEN SanitizeForLogging(parsedPayload)
               ELSE JNull
       IN logv' = [logv EXCEPT !.entry = [t |-> "entry", payload |-> sanitizedPayload]]
    /\ UNCHANGED <<apiVars, quizVars, cell, contactInfo>>

\* the same call in a production build: nothing is written
LogRequestSkipped ==
    /\ logv.entry = NotLogged
    /\ ~logv.dev
    /\ logv' = [logv EXCEPT !.entry = [t |-> "skipped"]]
    /\ UNCHANGED <<apiVars, quizVars, cell, contactInfo>>

InitLog ==
    /\ isTestEnv = FALSE
    /\ ApiAtLoad
    /\ QuizAtLoad
    /\ CellAtLoad
    /\ ContactAtLoad
    /\ logv \in [dev : BOOLEAN, body : Bodies, entry : {NotLogged}]

NextLog ==
    \/ LogRequest
    \/ LogRequestSkipped

SpecLog == InitLog /\ [][NextLog]_vars

----------------------------------------------------------------------------
(* Claims about the API client, checked under SpecApi                      *)

\* the methods the claims call state-changing
StateChangingMethods == {"POST", "PUT", "DELETE", "PATCH"}

\* outcome o is a 403 whose body is classified as CSRF-related
Csrf403(o) == o.kind = "response" /\ o.status = 403 /\ o.csrf

\* outcome o is a network error, a timeout or a response with status >= 500
RetryableOutcome(o) ==
    \/ o.kind \in {"network", "timeout"}
    \/ (o.kind = "response" /\ o.status >= 500)

Csrf403Count == Cardinality({i \in 1..Len(outcomes) : Csrf403(outcomes[i])})

\* C1: outside the test environment, the first CSRF-classified 403 that answers a
\* state-changing request makes the client refresh the token, on whichever attempt of
\* the call it arrives, and once the refresh has succeeded the request is sent again
\* with the new token, whatever the retry configuration.
C1_RefreshOnCsrf403 ==
    (~isTestEnv /\ method \in StateChangingMethods /\ Csrf403Count >= 1) =>
        /\ refreshCalls >= 1
        /\ (refreshed = "ok" /\ apc = "returned") =>
               \E j \in 1..Len(sent) : sent[j].header = refreshTok

\* C2: within one call refreshCsrfToken is invoked at most once; a CSRF-classified 403
\* that arrives after the first attempt (so also the one answering the retry that
\* follows a refresh) and a failed refresh each end the call with success=false and
\* code CSRF_TOKEN_INVALID, with no request and no refresh after them.
C2_SingleRefresh ==
    /\ refreshCalls <= 1
    /\ \A i \in 2..Len(outcomes) :
          (Csrf403(outcomes[i]) /\ (method \in StateChangingMethods /\ ~isTestEnv)) =>
              /\ apc = "returned"
              /\ result = [success |-> FALSE, code |-> "CSRF_TOKEN_INVALID"]
              /\ Len(sent) = i
              /\ Len(outcomes) = i
              /\ refreshed # "pending"
    /\ refreshed = "failed" =>
          /\ apc = "returned"
          /\ result = [success |-> FALSE, code |-> "CSRF_TOKEN_INVALID"]
          /\ Len(sent) = 1
    /\ refreshed = "ok" => Len(sent) <= retryConfig.maxRetries + 1

\* C2 witness: the retry that followed a successful refresh was answered 403/CSRF again.
C2_Witness ==
    /\ refreshed = "ok"
    /\ Len(outcomes) = 2
    /\ Csrf403(outcomes[2])
    /\ apc = "returned"

\* C3: a call with maxRetries = N sends at most N+1 requests, the retry after a token
\* refresh included; submitAssessment and sendEmailResults send at most 4, saveProgress
\* and checkApiHealth at most 2.
C3_RequestBudget ==
    /\ Len(sent) <= retryConfig.maxRetries + 1
    /\ caller \in {"submitAssessment", "sendEmailResults"} => Len(sent) <= 4
    /\ caller \in {"saveProgress", "checkApiHealth"} => Len(sent) <= 2

\* C3 witness: submitAssessment used its whole budget, one request of it being the
\* retry after a token refresh.
C3_Witness ==
    /\ caller = "submitAssessment"
    /\ refreshed = "ok"
    /\ Len(sent) = 4
    /\ apc = "returned"

----------------------------------------------------------------------------
(* Claims about the quiz pages                                             *)

\* C5: every state-changing request the application sends carries the CSRF token in
\* the X-CSRF-Token header: the last POST a quiz page has sent carried it
C5_QuizPostsCarryCsrf ==
    lastPost.url # "" => lastPost.csrf

\* C8: once the analysis has arrived, Q3 routes the respondent to exactly one of the
\* non-treatable, manual-review and primary-cell pages: a step that handles an
\* analysis ends on one of the three pages
C8_AnalysisRoutes ==
    [][(path = Q3Path /\ pending'.q3Fetches < pending.q3Fetches)
          => path' \in {NonTreatablePath, ManualReviewPath, PrimaryCellPath}]_vars

\* C9: a respondent whose pain has lasted six months or less is taken to the too-soon
\* page and does not go on to the other questions: while that answer stands, the page
\* shown is the too-soon page or Q1
C9_TooSoonStopsTheQuiz ==
    state.painDuration = "6_months_or_less" => path \in {TooSoonPath, Q1Path}

\* C10: the congratulations page is shown to qualified respondents with treatable
\* conditions only
C10_CongratulationsForQualified ==
    path = CongratulationsPath
        => /\ state.qualificationStatus = "qualified"
           /\ state.treatableConditions \notin {{}, UndefinedList}

\* C11: the stored qualificationStatus describes the page the respondent was sent to:
\* 'disqualified_too_soon' on the too-soon page, 'disqualified_non_treatable' on the
\* non-treatable page, 'manual_review' on the manual-review page and on the
\* alternative explanation page
C11_StatusDescribesRoute ==
    /\ path = TooSoonPath => state.qualificationStatus = "disqualified_too_soon"
    /\ path = NonTreatablePath
          => state.qualificationStatus = "disqualified_non_treatable"
    /\ path \in {ManualReviewPath, AlternativePath}
          => state.qualificationStatus = "manual_review"

\* C12: the respondent is taken from the contact form to the welcome page only if the
\* backend accepted the submission: no step that handles a response with an error
\* status ends on the welcome page
C12_WelcomeOnlyIfAccepted ==
    [][~(CongratulationsSettles("error_status") /\ path' = WelcomePath)]_vars

----------------------------------------------------------------------------
(* Claims about the Cellular Science page                                  *)

\* a step in which the form was submitted: the answers are as they were and something
\* else has changed
CellSubmitted ==
    /\ cell.location = CellularPath
    /\ cell' # cell
    /\ cell'.selectedConditions = cell.selectedConditions
    /\ cell'.otherConditions = cell.otherConditions
    /\ ~(cell.validationError /\ ~cell'.validationError)

\* nothing is selected and the free text is empty or white space
CellBlank ==
    /\ cell.selectedConditions = <<>>
    /\ \A i \in 1..Len(cell.otherConditions) : cell.otherConditions[i] = " "

\* the routing and the disqualification of a submission that passes validation
CellRoutedByRule ==
    LET someSelected == cell.selectedConditions # <<>>
        noneTreatable ==
            \A i \in 1..Len(cell.selectedConditions) :
                cell.selectedConditions[i] \notin TreatableIds
    IN /\ cell'.location \in {DisqualifiedRoute, ConfirmationRoute}
       /\ cell'.location = DisqualifiedRoute <=> (someSelected /\ noneTreatable)
       /\ cell'.disqualified = "non-treatable" <=> cell'.location = DisqualifiedRoute

\* C13 as stated: a submission that passes validation is routed and disqualified by
\* the rule, and a submission with nothing selected and blank free text changes no
\* state and does not navigate
C13_RoutingAndBlankNoChange ==
    [][/\ (CellSubmitted /\ ~CellBlank) => CellRoutedByRule
       /\ (\E written \in 0..3 : HandleSubmit(written)) /\ CellBlank => cell' = cell]_vars

\* C13, amended: a submission that passes validation is routed and disqualified by the
\* rule; a submission with nothing selected and blank free text does not navigate and
\* changes nothing but the page's validation message, which it sets
C13_RoutingAndBlankOnlyMessage ==
    [][/\ (CellSubmitted /\ ~CellBlank) => CellRoutedByRule
       /\ (CellSubmitted /\ CellBlank)
             => cell' = [cell EXCEPT !.validationError = TRUE]]_vars

\* a submission with a non-treatable and a treatable condition selected has been
\* routed to the confirmation page without a disqualification
C13_Witness ==
    /\ cell.location = ConfirmationRoute
    /\ \E i, j \in 1..Len(cell.selectedConditions) :
          /\ cell.selectedConditions[i] \in NonTreatableIds
          /\ cell.selectedConditions[j] \in TreatableIds
    /\ cell.disqualified = ""
    /\ cell.conditionType # ""

----------------------------------------------------------------------------
(* Claims about the callers of the API client                              *)

\* C14: submitAssessment sends no request when the contact information is invalid: it
\* returns INVALID_EMAIL if the email is missing or malformed, otherwise
\* INVALID_PHONE if a phone is given and malformed, otherwise VALIDATION_ERROR if the
\* trimmed name is shorter than 2 characters; only when all three checks pass is the
\* POST issued
C14_InvalidContactSendsNothing ==
    caller = "submitAssessment" =>
        LET emailBad == contactInfo.email = EmptyText \/ ~IsValidEmail(contactInfo.email)
            phoneBad == contactInfo.phone # EmptyText /\ ~IsValidPhone(contactInfo.phone)
            nameBad == Len(Trim(contactInfo.name)) < 2
            refusal == IF emailBad THEN "INVALID_EMAIL"
                       ELSE IF phoneBad THEN "INVALID_PHONE"
                       ELSE "VALIDATION_ERROR"
        IN IF emailBad \/ phoneBad \/ nameBad
           THEN /\ sent = <<>>
                /\ apc = "returned"
                /\ result = [success |-> FALSE, code |-> refusal]
           ELSE /\ method = "POST"
                /\ apc # "returned" \/ sent # <<>>

\* a call with a well-formed email and a malformed phone has been refused with
\* INVALID_PHONE, although its name is too short as well
C14_Witness ==
    /\ caller = "submitAssessment"
    /\ IsValidEmail(contactInfo.email)
    /\ contactInfo.phone # EmptyText /\ ~IsValidPhone(contactInfo.phone)
    /\ Len(Trim(contactInfo.name)) < 2
    /\ result.code = "INVALID_PHONE"
    /\ sent = <<>>

----------------------------------------------------------------------------
(* Claims about the request log                                            *)

\* somewhere in the value, at any depth of objects and arrays, one of the personal
\* keys holds something else than the redaction mark
RECURSIVE Exposed(_)
Exposed(value) ==
    IF value.t = "object"
    THEN \E k \in DOMAIN value.f :
            \/ k \in {"name", "email", "phone", "phoneNumber", "contactInfo"}
                  /\ value.f[k] # JStr("[REDACTED]")
            \/ Exposed(value.f[k])
    ELSE IF value.t = "array"
    THEN \E i \in 1..Len(value.e) : Exposed(value.e[i])
    ELSE FALSE

\* C15: the payload written to the request log holds no value that the request
\* stores under name, email, phone, phoneNumber or contactInfo, at any nesting depth,
\* inside arrays included: each such value is replaced by '[REDACTED]'
C15_LoggedPayloadRedacted ==
    logv.entry.t = "entry" => ~Exposed(logv.entry.payload)

\* a body whose email is inside an object inside an array inside an object has been
\* logged
C15_Witness ==
    /\ logv.entry.t = "entry"
    /\ logv.body.t = "text" /\ logv.body.json
    /\ logv.body.doc.t = "object"
    /\ "items" \in DOMAIN logv.body.doc.f
    /\ logv.body.doc.f["items"].t = "array"
    /\ Len(logv.body.doc.f["items"].e) = 1
    /\ logv.body.doc.f["items"].e[1].t = "object"
    /\ "email" \in DOMAIN logv.body.doc.f["items"].e[1].f
    /\ logv.body.doc.f["items"].e[1].f["email"] = JStr("x")

----------------------------------------------------------------------------
(* Claims about the route table                                            *)

\* C16: every path a quiz page navigates to by Continue, Back or automatic advance is
\* a route registered in App's route table: the location the pages have navigated to
\* is always one of the registered paths
C16_NavigationsRegistered ==
    path \in RegisteredRoutes

----------------------------------------------------------------------------
(* Claims about the quiz pages, continued                                  *)

QualificationFields(st) ==
    <<st.qualificationStatus, st.treatableConditions, st.nonTreatableConditions,
      st.requiresManualReview>>

\* C17: when the analysis request of Q3 fails (network failure, a body that is not
\* JSON, a response without the expected fields) the respondent, still on Q3, is
\* routed to the primary-cell explanation and the qualification fields of the quiz
\* state stay as they were
C17_FailedAnalysisFallsBack ==
    [][(/\ path = Q3Path
        /\ \/ \E how \in {"network", "not_json"} : Q3AnalysisFails(how)
           \/ \E a \in IncompleteAnalyses : Q3AnalysisArrives(a))
          => /\ path' = PrimaryCellPath
             /\ QualificationFields(state') = QualificationFields(state)]_vars

\* C18: Back on Q4 returns to the explanation page from which the respondent arrived,
\* the alternative explanation after the manual-review page and the primary-cell
\* explanation otherwise
C18_Q4BackReturns ==
    [][(Q4Back /\ local.cameFrom \in {AlternativePath, PrimaryCellPath})
          => path' = local.cameFrom]_vars

\* C19: the delayed auto-advance of Q6 never overrides a later action of the
\* respondent: once Back has taken the respondent to Q5, a timer still pending from a
\* selection on Q6 does not navigate to Q7
C19_NoAdvanceAfterBack ==
    [][(path = Q5Path /\ pending.q6Timers > 0) => path' # Q7Path]_vars

\* C20: on Q2 the selection never holds 'none' together with another treatment, and
\* neither does the treatmentsTried that Continue commits
C20_NoneExcludesOthers ==
    /\ "none" \in local.q2Selected => local.q2Selected = {"none"}
    /\ "none" \in state.treatmentsTried => state.treatmentsTried = {"none"}

\* the respondent had continued with 'None', came back to Q2 and selected another
\* treatment
C20_Witness ==
    /\ path = Q2Path
    /\ state.treatmentsTried = {"none"}
    /\ local.q2Selected = {"physical_therapy"}


\* the two education pages between Q2 and Q3
EducationPages == {EducationPath, EducationNonePath}

\* the education page a respondent who continues from Q2 with this selection is led to
EducationFor(selection) ==
    IF "none" \in selection THEN EducationNonePath ELSE EducationPath

\* C21: Back on Q3 returns to the education page the respondent passed through:
\* whoever goes on from an education page to Q3 has passed the page that Q2's
\* Continue leads to for the committed selection (the 'None' version when 'none'
\* is among the treatments, the other one otherwise), the committed selection
\* changes nowhere but on Q2, and Back on Q3 leads to the page for that selection.
C21_Q3BackToEducation ==
    [][/\ (path \in EducationPages /\ path' = Q3Path)
            => path = EducationFor(state'.treatmentsTried)
       /\ state'.treatmentsTried # state.treatmentsTried => path = Q2Path
       /\ Q3Back => path' = EducationFor(state.treatmentsTried)]_vars

\* the respondent continued from Q2 with a treatment, passed the connecting message
\* and the education page, and pressed Back on Q3
C21_Witness ==
    /\ path = EducationPath
    /\ local.cameFrom = Q3Path
    /\ state.treatmentsTried = {"physical_therapy"}

====
